---- MODULE Spec2Model ----
(***************************************************************************)
(* PlotTools.py: loading of repeated experimental runs from files named    *)
(* {basename}-{run_number}.txt, their aggregation into mean / stderr /     *)
(* cumulative stderr, and the writing of the aggregated {basename}.txt.    *)
(*                                                                         *)
(* Spec     the file system and the control flow of load_results,          *)
(*          load_directory and summarize_directory.                        *)
(* SpecAgg  aggregate_results alone, on arrays built run by run.           *)
(*                                                                         *)
(* File names are sequences of one-character strings, so that the glob,    *)
(* the two regular expressions and str.format are computed on characters.  *)
(* A file is missing, unreadable (np.loadtxt raises PermissionError),      *)
(* malformed (ValueError), a run (a series of samples) or an aggregated    *)
(* table.  glob lists the directory in any order.                          *)
(*                                                                         *)
(* Samples are integers and the statistics are exact rationals (a pair     *)
(* <<numerator, denominator>> in lowest terms); a standard deviation or    *)
(* a standard error is kept as the rational under its square root, so two  *)
(* of them are equal exactly when these rationals are.  The rounding of    *)
(* float64 arithmetic is not part of this model.                           *)
(***************************************************************************)
EXTENDS Integers, Sequences, FiniteSets

\* ------------------------------------------------------------- bounds
\* highest run index a file of the directory may carry
MaxRun == 1
\* time steps of one run
SeriesLen == 2
\* calls of the module's entry points in one behaviour
MaxCalls == 2
\* SpecAgg: runs handed to aggregate_results
MaxN == 3
\* SpecAgg: the samples a run is made of, and the time steps it can have
Samples == {-1, 2}
StepCounts == {1, 2, 3}

\* ------------------------------------------------------------- strings
TXT == <<".", "t", "x", "t">>

Digits == <<"0", "1", "2", "3", "4", "5", "6", "7", "8", "9">>

RECURSIVE FormatInt(_)
\* str(run_number), as '{}'.format(run_number) renders it
FormatInt(n) ==
    IF n < 10 THEN <<Digits[n + 1]>>
    ELSE FormatInt(n \div 10) \o <<Digits[(n % 10) + 1]>>

EndsWith(s, suf) ==
    /\ Len(s) >= Len(suf)
    /\ SubSeq(s, Len(s) - Len(suf) + 1, Len(s)) = suf

\* fnmatch of "*-0.txt" as glob applies it: a leading dot is never matched by *
GlobMatch(name) ==
    /\ EndsWith(name, <<"-", "0">> \o TXT)
    /\ name[1] # "."

\* re.sub(r'^(.*-)0(\.txt)$', r'\1{}\2', pathname): the 0 before .txt becomes {}
PatternOf(name) ==
    IF EndsWith(name, <<"-", "0">> \o TXT)
    THEN SubSeq(name, 1, Len(name) - 5) \o <<"{", "}">> \o TXT
    ELSE name

\* positions i such that name[i+1..i+6] matches -0.txt with . any character
BasenameCuts(name) ==
    { i \in 0..(Len(name) - 6) :
        /\ name[i + 1] = "-"
        /\ name[i + 2] = "0"
        /\ SubSeq(name, i + 4, i + 6) = <<"t", "x", "t">> }

SetMax(S) == CHOOSE x \in S : \A y \in S : y <= x

\* re.findall(r'^(.*)-0.txt', name): the greedy group is the longest prefix
BasenameOf(name) == SubSeq(name, 1, SetMax(BasenameCuts(name)))

RECURSIVE Format(_, _)
\* pattern.format(run_number): every {} is replaced by the number
Format(pat, n) ==
    IF pat = <<>> THEN <<>>
    ELSE IF Len(pat) >= 2 /\ pat[1] = "{" /\ pat[2] = "}"
         THEN FormatInt(n) \o Format(SubSeq(pat, 3, Len(pat)), n)
         ELSE <<pat[1]>> \o Format(Tail(pat), n)

\* ------------------------------------------------------------- rationals
RECURSIVE GCD(_, _)
GCD(a, b) == IF b = 0 THEN a ELSE GCD(b, a % b)

Abs(x) == IF x < 0 THEN -x ELSE x

\* n/d in lowest terms with a positive denominator
Rat(n, d) ==
    LET g == GCD(Abs(n), Abs(d))
        s == IF d < 0 THEN -1 ELSE 1
    IN  <<(s * n) \div g, (s * d) \div g>>

\* a fraction <<n, d>>, d # 0, reduced to lowest terms
Norm(p) == Rat(p[1], p[2])

\* arithmetic on fractions; the operands and the result need not be reduced
RAdd(p, q) == <<p[1] * q[2] + q[1] * p[2], p[2] * q[2]>>
RSub(p, q) == <<p[1] * q[2] - q[1] * p[2], p[2] * q[2]>>
RMul(p, q) == <<p[1] * q[1], p[2] * q[2]>>
RDiv(p, q) == <<p[1] * q[2], p[2] * q[1]>>

RECURSIVE RSumTo(_, _)
\* s[1] + ... + s[n], added in index order
RSumTo(s, n) == IF n = 0 THEN <<0, 1>> ELSE RAdd(RSumTo(s, n - 1), s[n])

RSum(s) == RSumTo(s, Len(s))

\* ------------------------------------------------------------- aggregate_results
\* results[i][t]: sample of run i at time step t (axis 0 runs, axis 1 time)
Column(results, t) == [i \in 1..Len(results) |-> <<results[i][t], 1>>]

\* ndarray.mean(axis=0) of one column
Mean(col) == Norm(RDiv(RSum(col), <<Len(col), 1>>))

\* a deviation taken from zero instead of from the mean
StdSqUncentred(col) ==
    LET dev == [i \in 1..Len(col) |-> RMul(col[i], col[i])]
    IN  Norm(RDiv(RSum(dev), <<Len(col), 1>>))

\* ndarray.std(axis=0) of one column, ddof = 0: the rational under the root
StdSq(col) ==
    LET m == Mean(col)
        dev == [i \in 1..Len(col) |-> RMul(RSub(col[i], m), RSub(col[i], m))]
    IN  Norm(RDiv(RSum(dev), <<Len(col), 1>>))

RECURSIVE CumSum(_)
\* cumsum along one run
CumSum(run) ==
    IF run = <<>> THEN <<>>
    ELSE LET front == CumSum(SubSeq(run, 1, Len(run) - 1))
             last == IF front = <<>> THEN 0 ELSE front[Len(front)]
         IN  Append(front, last + run[Len(run)])

\* the running sum taken down the run axis instead of along time
CumSumAxis0(results) ==
    [i \in 1..Len(results) |->
        [t \in 1..Len(results[i]) |->
            Norm(RSumTo(Column(results, t), i))[1]]]

\* results.cumsum(axis=1)
CumSumAxis1(results) == [i \in 1..Len(results) |-> CumSum(results[i])]

\* x.std(axis=0) / np.sqrt(float(nresults)), squared
StderrSq(col, nresults) == Norm(RDiv(StdSq(col), <<nresults, 1>>))

\* the statistics taken along each run (axis 1) instead of across runs
aggregate_results_axis1(results) ==
    LET nresults == Len(results)
        row(i) == [t \in 1..Len(results[i]) |-> <<results[i][t], 1>>]
        cum == CumSumAxis1(results)
        cumrow(i) == [t \in 1..Len(cum[i]) |-> <<cum[i][t], 1>>]
    IN  [ results_mean      |-> [i \in 1..nresults |-> Mean(row(i))],
          results_stderr    |-> [i \in 1..nresults |-> StderrSq(row(i), nresults)],
          cumresults_stderr |-> [i \in 1..nresults |-> StderrSq(cumrow(i), nresults)] ]

aggregate_results(results) ==
    LET nresults == Len(results)
        T == Len(results[1])
        cum == CumSumAxis1(results)
    IN  [ results_mean      |-> [t \in 1..T |-> Mean(Column(results, t))],
          results_stderr    |-> [t \in 1..T |-> StderrSq(Column(results, t), nresults)],
          cumresults_stderr |-> [t \in 1..T |-> StderrSq(Column(cum, t), nresults)] ]

\* np.array((mean, stderr, cumstderr)).T: one row per time step
Transposed(agg) ==
    [t \in 1..Len(agg.results_mean) |->
        <<agg.results_mean[t], agg.results_stderr[t], agg.cumresults_stderr[t]>>]

\* ------------------------------------------------------------- files
BaseNames == { <<"a">>, <<"a", "-", "0">> }

\* {basename}-{run_number}.txt
RunName(b, i) == b \o <<"-">> \o FormatInt(i) \o TXT

\* '{}.txt'.format(name)
OutName(b) == b \o TXT

RunNames == { RunName(b, i) : b \in BaseNames, i \in 0..MaxRun }

Names == RunNames \cup { OutName(b) : b \in BaseNames }

\* "d" is the directory summarized, "o" a separate output directory
Dirs == {"d", "o"}

Paths == Dirs \X Names

File(kind, series, name, runs, table) ==
    [kind |-> kind, series |-> series, name |-> name, runs |-> runs, table |-> table]

MissingFile == File("missing", <<>>, <<>>, 0, <<>>)
UnreadableFile == File("unreadable", <<>>, <<>>, 0, <<>>)
MalformedFile == File("malformed", <<>>, <<>>, 0, <<>>)
DataFile(series) == File("data", series, <<>>, 0, <<>>)
\* the header counting np.size(results) without axis=0: every sample
SummaryFileAllSamples(name, runs, table) ==
    File("summary", <<>>, name, runs * Len(table), table)

\* what np.savetxt leaves: the header '{} ({} runs)' and the table
SummaryFile(name, runs, table) == File("summary", <<>>, name, runs, table)

\* the samples of run i of basename b as the experiment wrote them
RunSeries(b, i) == [t \in 1..SeriesLen |-> (i + 1) * t + Len(b)]

\* ------------------------------------------------------------- np.loadtxt
Array(ndim, series, table) == [ndim |-> ndim, series |-> series, table |-> table]

\* the exception np.loadtxt raises on the file, "none" when it parses
LoadExc(f) ==
    CASE f.kind = "missing" -> "FileNotFoundError"
      [] f.kind = "unreadable" -> "PermissionError"
      [] f.kind = "malformed" -> "ValueError"
      [] OTHER -> "none"

\* the array np.loadtxt returns: a header line is a comment and is skipped
LoadArr(f) ==
    IF f.kind = "summary" THEN Array(2, <<>>, f.table)
    ELSE Array(1, f.series, <<>>)

\* except ValueError in place of except IOError
IsValueError(e) == e = "ValueError"

\* except IOError: IOError is OSError, the base of both
IsIOError(e) == e \in {"FileNotFoundError", "PermissionError"}

Shape(arr) == IF arr.ndim = 2 THEN <<Len(arr.table), 3>> ELSE <<Len(arr.series)>>

\* np.array(results) of arrays of unequal shapes
Ragged(results) ==
    \E i, j \in 1..Len(results) : Shape(results[i]) # Shape(results[j])

\* results is runs x time steps: aggregate_results and np.savetxt both accept it
TwoDim(results) ==
    /\ Len(results) >= 1
    /\ ~Ragged(results)
    /\ results[1].ndim = 1

\* the output is opened, and so truncated, before np.savetxt refuses the array
ThreeDim(results) ==
    /\ Len(results) >= 1
    /\ ~Ragged(results)
    /\ results[1].ndim = 2

SeriesOf(results) == [i \in 1..Len(results) |-> results[i].series]

\* ------------------------------------------------------------- state
VARIABLES
    fs,          \* the file system: Paths -> file
    pc,          \* "idle", "iter", "load", "loaded", "save", "done", "raised"
    mode,        \* "summarize": summarize_directory runs; "direct": load_results was called
    outdir,      \* output_directory, the input directory when None
    pending,     \* names glob matched and load_directory has not reached yet
    basename,    \* load_directory: basename
    pattern,     \* load_results: file_name
    run_number,  \* load_results: run_number
    results,     \* load_results: results
    attempts,    \* np.loadtxt calls of the running load_results
    loadedFrom,  \* names the running load_results loaded, in order
    exc,         \* the exception that ended the load loop, "none" before
    reported,    \* the count printed by "Loaded {} runs", -1 before
    yielded,     \* pairs load_directory yielded in this call
    writes,      \* np.savetxt calls that completed in this call
    globbed,     \* names glob matched at the start of this call
    snapshot,    \* the file system when this call started
    calls,       \* calls started so far
    runs,        \* SpecAgg: the array handed to aggregate_results
    agg,         \* SpecAgg: what aggregate_results returned, <<>> before
    order,       \* SpecAgg: a permutation of the run axis
    aggPerm      \* SpecAgg: aggregate_results of the permuted array, <<>> before

ioVars == <<fs, pc, mode, outdir, pending, basename, pattern, run_number, results,
            attempts, loadedFrom, exc, reported, yielded, writes, globbed,
            snapshot, calls>>

aggVars == <<runs, agg, order, aggPerm>>

vars == <<fs, pc, mode, outdir, pending, basename, pattern, run_number, results,
          attempts, loadedFrom, exc, reported, yielded, writes, globbed,
          snapshot, calls, runs, agg, order, aggPerm>>

\* the states a run file of the directory can be in before the first call
InitialKinds == {"missing", "data", "unreadable", "malformed"}

InitialFile(kind, name) ==
    IF kind = "data"
    THEN LET bi == CHOOSE bi \in BaseNames \X (0..MaxRun) : RunName(bi[1], bi[2]) = name
         IN  DataFile(RunSeries(bi[1], bi[2]))
    ELSE File(kind, <<>>, <<>>, 0, <<>>)

IoInit ==
    /\ \E kinds \in [RunNames -> InitialKinds] :
          fs = [p \in Paths |->
                  IF p[1] = "d" /\ p[2] \in RunNames
                  THEN InitialFile(kinds[p[2]], p[2])
                  ELSE MissingFile]
    /\ pc = "idle"
    /\ mode = "direct"
    /\ outdir = "d"
    /\ pending = {}
    /\ basename = <<>>
    /\ pattern = <<>>
    /\ run_number = 0
    /\ results = <<>>
    /\ attempts = 0
    /\ loadedFrom = <<>>
    /\ exc = "none"
    /\ reported = -1
    /\ yielded = <<>>
    /\ writes = <<>>
    /\ globbed = {}
    /\ snapshot = fs
    /\ calls = 0

AggIdle ==
    /\ runs = <<>>
    /\ agg = <<>>
    /\ order = <<>>
    /\ aggPerm = <<>>

Init == IoInit /\ AggIdle

\* ------------------------------------------------------------- load_results
\* the file a name of the summarized directory denotes
FileAt(name) == IF name \in Names THEN fs[<<"d", name>>] ELSE MissingFile

\* run_number = 0; results = []
EnterLoad(file_name) ==
    /\ pattern' = file_name
    /\ run_number' = 0
    /\ results' = <<>>
    /\ attempts' = 0
    /\ loadedFrom' = <<>>
    /\ exc' = "none"
    /\ reported' = -1
    /\ pc' = "load"

\* a caller hands load_results the pattern of one basename
CallLoadResults ==
    /\ pc \in {"idle", "done", "raised"}
    /\ calls < MaxCalls
    /\ \E b \in BaseNames : EnterLoad(b \o <<"-", "{", "}">> \o TXT)
    /\ mode' = "direct"
    /\ calls' = calls + 1
    /\ snapshot' = fs
    /\ yielded' = <<>>
    /\ writes' = <<>>
    /\ globbed' = {}
    /\ pending' = {}
    /\ UNCHANGED <<fs, outdir, basename>>
    /\ UNCHANGED aggVars

\* one pass of the while loop: np.loadtxt(file_name.format(run_number))
LoadAttempt ==
    /\ pc = "load"
    /\ LET name == Format(pattern, run_number)
           f == FileAt(name)
           e == LoadExc(f)
       IN  /\ attempts' = attempts + 1
           /\ IF e = "none"
              THEN /\ results' = Append(results, LoadArr(f))
                   /\ run_number' = run_number + 1
                   /\ loadedFrom' = Append(loadedFrom, name)
                   /\ UNCHANGED <<pc, exc, reported>>
              ELSE IF IsIOError(e)
              THEN \* break; print; return np.array(results)
                   /\ exc' = e
                   /\ reported' = run_number
                   /\ \/ pc' = "loaded"
                      \/ Ragged(results) /\ pc' = "raised"
                   /\ UNCHANGED <<results, run_number, loadedFrom>>
              ELSE /\ exc' = e
                   /\ pc' = "raised"
                   /\ UNCHANGED <<results, run_number, loadedFrom, reported>>
    /\ UNCHANGED <<fs, mode, outdir, pending, basename, pattern, yielded, writes,
                   globbed, snapshot, calls>>
    /\ UNCHANGED aggVars

\* load_results returns to the caller that called it directly
ReturnLoad ==
    /\ pc = "loaded"
    /\ mode = "direct"
    /\ pc' = "done"
    /\ UNCHANGED <<fs, mode, outdir, pending, basename, pattern, run_number, results,
                   attempts, loadedFrom, exc, reported, yielded, writes, globbed,
                   snapshot, calls>>
    /\ UNCHANGED aggVars

\* ------------------------------------------------------------- load_directory
\* summarize_directory(directory, output_directory): glob lists the directory
CallSummarize ==
    /\ pc \in {"idle", "done", "raised"}
    /\ calls < MaxCalls
    /\ \E o \in Dirs : outdir' = o
    /\ mode' = "summarize"
    /\ pending' = { n \in Names : fs[<<"d", n>>].kind # "missing" /\ GlobMatch(n) }
    /\ globbed' = pending'
    /\ pc' = "iter"
    /\ calls' = calls + 1
    /\ snapshot' = fs
    /\ yielded' = <<>>
    /\ writes' = <<>>
    /\ pattern' = <<>>
    /\ run_number' = 0
    /\ results' = <<>>
    /\ attempts' = 0
    /\ loadedFrom' = <<>>
    /\ exc' = "none"
    /\ reported' = -1
    /\ UNCHANGED <<fs, basename>>
    /\ UNCHANGED aggVars

\* the next pathname of glob.iglob, in the order the directory lists them
NextPathname ==
    /\ pc = "iter"
    /\ \E pathname \in pending :
          /\ pending' = pending \ {pathname}
          /\ basename' = BasenameOf(pathname)
          /\ EnterLoad(PatternOf(pathname))
    /\ UNCHANGED <<fs, mode, outdir, yielded, writes, globbed, snapshot, calls>>
    /\ UNCHANGED aggVars

\* yield (basename, load_results(pattern))
Yield ==
    /\ pc = "loaded"
    /\ mode = "summarize"
    /\ yielded' = Append(yielded, [basename |-> basename, pattern |-> pattern,
                                   results |-> results, reported |-> reported])
    /\ pc' = "save"
    /\ UNCHANGED <<fs, mode, outdir, pending, basename, pattern, run_number, results,
                   attempts, loadedFrom, exc, reported, writes, globbed, snapshot,
                   calls>>
    /\ UNCHANGED aggVars

\* ------------------------------------------------------------- summarize_directory
OutPath(dir, name) == <<dir, OutName(name)>>

\* the body of the for loop: np.savetxt(path, np.array(aggregate_results(results)).T, header)
Save ==
    /\ pc = "save"
    /\ IF TwoDim(results)
       THEN /\ fs' = [fs EXCEPT ![OutPath(outdir, basename)] =
                        SummaryFile(basename, Len(results),
                                    Transposed(aggregate_results(SeriesOf(results))))]
            /\ writes' = Append(writes, [basename |-> basename,
                                         path |-> OutPath(outdir, basename)])
            /\ pc' = "iter"
       ELSE IF ThreeDim(results)
       THEN /\ fs' = [fs EXCEPT ![OutPath(outdir, basename)] = DataFile(<<>>)]
            /\ pc' = "raised"
            /\ UNCHANGED writes
       ELSE /\ pc' = "raised"
            /\ UNCHANGED <<fs, writes>>
    /\ UNCHANGED <<mode, outdir, pending, basename, pattern, run_number, results,
                   attempts, loadedFrom, exc, reported, yielded, globbed, snapshot,
                   calls>>
    /\ UNCHANGED aggVars

\* glob is exhausted: summarize_directory returns
EndSummarize ==
    /\ pc = "iter"
    /\ pending = {}
    /\ pc' = "done"
    /\ UNCHANGED <<fs, mode, outdir, pending, basename, pattern, run_number, results,
                   attempts, loadedFrom, exc, reported, yielded, writes, globbed,
                   snapshot, calls>>
    /\ UNCHANGED aggVars

Next ==
    \/ CallLoadResults
    \/ LoadAttempt
    \/ ReturnLoad
    \/ CallSummarize
    \/ NextPathname
    \/ Yield
    \/ Save
    \/ EndSummarize

Spec == Init /\ [][Next]_vars

\* ------------------------------------------------------------- aggregate_results alone
\* the rows a run of T time steps can be
Rows(T) == [1..T -> Samples]

IoIdle ==
    /\ fs = [p \in Paths |-> MissingFile]
    /\ pc = "idle"
    /\ mode = "direct"
    /\ outdir = "d"
    /\ pending = {}
    /\ basename = <<>>
    /\ pattern = <<>>
    /\ run_number = 0
    /\ results = <<>>
    /\ attempts = 0
    /\ loadedFrom = <<>>
    /\ exc = "none"
    /\ reported = -1
    /\ yielded = <<>>
    /\ writes = <<>>
    /\ globbed = {}
    /\ snapshot = fs
    /\ calls = 0

InitAgg == IoIdle /\ AggIdle

\* the caller builds the array: one more run of the same length
AddRun ==
    /\ agg = <<>>
    /\ Len(runs) < MaxN
    /\ \E T \in StepCounts :
          /\ runs # <<>> => T = Len(runs[1])
          /\ \E r \in Rows(T) : runs' = Append(runs, r)
    /\ UNCHANGED <<agg, order, aggPerm>>
    /\ UNCHANGED ioVars

\* aggregate_results(results)
Aggregate ==
    /\ agg = <<>>
    /\ runs # <<>>
    /\ agg' = aggregate_results(runs)
    /\ UNCHANGED <<runs, order, aggPerm>>
    /\ UNCHANGED ioVars

RunOrders(n) == { p \in [1..n -> 1..n] : \A i, j \in 1..n : p[i] = p[j] => i = j }

\* aggregate_results(results[order]) for a reordering of the run axis
AggregatePermuted ==
    /\ agg # <<>>
    /\ aggPerm = <<>>
    /\ \E p \in RunOrders(Len(runs)) :
          /\ order' = p
          /\ aggPerm' = aggregate_results([i \in 1..Len(runs) |-> runs[p[i]]])
    /\ UNCHANGED <<runs, agg>>
    /\ UNCHANGED ioVars

NextAgg ==
    \/ AddRun
    \/ Aggregate
    \/ AggregatePermuted

SpecAgg == InitAgg /\ [][NextAgg]_vars

\* ------------------------------------------------------------- properties
\* the smallest run index of the running load_results whose file is missing
SmallestMissing ==
    CHOOSE k \in 0..(MaxRun + 1) :
        /\ FileAt(Format(pattern, k)).kind = "missing"
        /\ \A j \in 0..(k - 1) : FileAt(Format(pattern, j)).kind # "missing"

\* a name matching *-0.txt without its trailing -0.txt
StripRun0(name) == SubSeq(name, 1, Len(name) - 6)

\* C1: when load_results returns, it returns as many arrays as the smallest
\* missing index k, and they are the arrays of runs 0..k-1 in that order
C1_LoadsUpToFirstMissing ==
    pc = "loaded" =>
        /\ Len(results) = SmallestMissing
        /\ Len(loadedFrom) = SmallestMissing
        /\ \A i \in 1..Len(loadedFrom) :
              /\ loadedFrom[i] = Format(pattern, i - 1)
              /\ results[i] = LoadArr(FileAt(loadedFrom[i]))

\* C2: the load loop ends as end-of-sequence only on a missing file; any
\* other failure of np.loadtxt leaves load_results as an exception
C2_OnlyMissingIsHandled ==
    /\ pc = "loaded" => exc = "FileNotFoundError"
    /\ exc \in {"PermissionError", "ValueError"} => pc = "raised"

\* all runs handed to aggregate_results are the same row
AllRunsEqual == \A i \in 1..Len(runs) : runs[i] = runs[1]

Discovered == { StripRun0(g) : g \in globbed }

\* C5: when summarize_directory returns, every basename discovered has exactly
\* one file {basename}.txt in the output directory, one row per time step and
\* three columns (mean, stderr, cumulative stderr), and its header names the
\* count load_results reported; no other file has changed
C5_OneSummaryPerBasename ==
    (pc = "done" /\ mode = "summarize") =>
        /\ Len(writes) = Cardinality(Discovered)
        /\ Len(yielded) = Cardinality(Discovered)
        /\ \A b \in Discovered :
              /\ Cardinality({ i \in 1..Len(writes) : writes[i].basename = b }) = 1
              /\ \A i \in 1..Len(writes) :
                    writes[i].basename = b => writes[i].path = <<outdir, b \o TXT>>
              /\ \E i \in 1..Len(yielded) :
                    LET y == yielded[i]
                        f == fs[<<outdir, b \o TXT>>]
                        a == aggregate_results(SeriesOf(y.results))
                    IN  /\ y.basename = b
                        /\ f.kind = "summary"
                        /\ f.name = b
                        /\ f.runs = y.reported
                        /\ f.runs = Len(y.results)
                        /\ Len(f.table) = Len(y.results[1].series)
                        /\ \A t \in 1..Len(f.table) :
                              /\ Len(f.table[t]) = 3
                              /\ f.table[t][1] = a.results_mean[t]
                              /\ f.table[t][2] = a.results_stderr[t]
                              /\ f.table[t][3] = a.cumresults_stderr[t]
        /\ \A p \in Paths :
              fs[p] # snapshot[p] => \E b \in Discovered : p = <<outdir, b \o TXT>>

C5_Witness ==
    /\ pc = "done"
    /\ mode = "summarize"
    /\ Len(writes) = 2
    /\ fs[<<outdir, <<"a">> \o TXT>>].runs = MaxRun + 1
    /\ fs[<<outdir, <<"a", "-", "0">> \o TXT>>].runs = 1

\* C6: load_directory yields one pair per name matching *-0.txt, its basename
\* the name without -0.txt and its pattern addressing {basename}-{n}.txt; every
\* result yielded holds at least run 0, and a basename without an index-0 file
\* is never yielded
C6_OnePairPerRun0File ==
    /\ \A i \in 1..Len(yielded) :
          /\ yielded[i].basename \in Discovered
          /\ \A n \in 0..(MaxRun + 1) :
                Format(yielded[i].pattern, n) = RunName(yielded[i].basename, n)
          /\ snapshot[<<"d", RunName(yielded[i].basename, 0)>>].kind # "missing"
          /\ \A j \in 1..Len(yielded) :
                yielded[j].basename = yielded[i].basename => j = i
          /\ Len(yielded[i].results) >= 1
    /\ (pc = "done" /\ mode = "summarize") =>
          { yielded[i].basename : i \in 1..Len(yielded) } = Discovered

\* C7: when the load loop of load_results has ended and the smallest missing
\* index is k, it made k+1 load attempts and reports k loaded runs
C7_AttemptsUpToFirstMissing ==
    pc = "loaded" =>
        /\ attempts = SmallestMissing + 1
        /\ reported = SmallestMissing

\* C8: with the output written into the summarized directory, no run file that
\* was there when summarize_directory started is changed, and no file it
\* writes there matches *-0.txt
C8_RunFilesUntouched ==
    /\ (mode = "summarize" /\ outdir = "d") =>
          \A n \in RunNames :
              snapshot[<<"d", n>>].kind # "missing" =>
                  fs[<<"d", n>>] = snapshot[<<"d", n>>]
    /\ \A i \in 1..Len(writes) :
          writes[i].path[1] = "d" => ~GlobMatch(writes[i].path[2])

RECURSIVE PrefixSum(_, _)
\* run[1] + ... + run[t]
PrefixSum(run, t) == IF t = 0 THEN 0 ELSE PrefixSum(run, t - 1) + run[t]

RECURSIVE SumOver(_, _)
\* xs[1] + ... + xs[n]
SumOver(xs, n) == IF n = 0 THEN 0 ELSE SumOver(xs, n - 1) + xs[n]

\* the squared standard error of the integers xs: their population variance
\* over their number, (N * sum x^2 - (sum x)^2) / N^3
StderrSqOf(xs) ==
    LET N == Len(xs)
        sq == [i \in 1..N |-> xs[i] * xs[i]]
    IN  Rat(N * SumOver(sq, N) - SumOver(xs, N) * SumOver(xs, N), N * N * N)

C10_NoRunZero ==
    ( /\ mode = "direct"
      /\ attempts >= 1
      /\ FileAt(Format(pattern, 0)).kind = "missing" ) =>
        /\ pc \in {"loaded", "done"}
        /\ attempts = 1
        /\ exc = "FileNotFoundError"
        /\ reported = 0
        /\ results = <<>>

C10_Witness ==
    /\ mode = "direct"
    /\ pc = "done"
    /\ attempts = 1
    /\ results = <<>>
    /\ FileAt(Format(pattern, 0)).kind = "missing"
    /\ FileAt(Format(pattern, 1)).kind = "data"

====
